---- MODULE Spec2Model ----
(***************************************************************************)
(* Like/karma ledger of the community feed (backend/feed).                 *)
(*                                                                         *)
(* The relational store is modelled by its committed tables (posts,        *)
(* comments, likes, karma) and the id sequences.  Every HTTP request runs  *)
(* in one of NumProcs worker slots; a request that opens                   *)
(* transaction.atomic() keeps its uncommitted rows in txLike / txKarma     *)
(* until its commit step, so that other requests read committed rows only  *)
(* (READ COMMITTED, the PostgreSQL default of settings.DATABASES).         *)
(*                                                                         *)
(* Four specifications share the variables:                                *)
(*  - Spec: like and unlike requests racing with content requests;         *)
(*  - SpecContent: create, update and delete of posts and comments;        *)
(*  - SpecTree: PostViewSet._build_comment_tree applied to a list;         *)
(*  - SpecBoard: LeaderboardView.get applied to a ledger at an instant.    *)
(*                                                                         *)
(* Library behaviour the handlers rest on:                                 *)
(*  - Model.full_clean() runs clean_fields(), clean(), validate_unique()   *)
(*    and validate_constraints(); the last one queries the table for each  *)
(*    UniqueConstraint and raises django.core.exceptions.ValidationError.  *)
(*  - a ValidationError of django.core is no APIException: the REST        *)
(*    framework does not translate it and the request ends in a 500.       *)
(*  - a unique index is checked by the INSERT itself; an INSERT that       *)
(*    meets an uncommitted conflicting row waits for that transaction.     *)
(*  - foreign keys are DEFERRABLE INITIALLY DEFERRED: they are checked by  *)
(*    COMMIT, which raises IntegrityError inside the atomic block's exit.  *)
(***************************************************************************)
EXTENDS Integers, FiniteSets, Sequences, TLC

\* ------------------------------------------------------------------ bounds
NumUsers == 2
NumProcs == 2
MaxPostId == 1
MaxCommentId == 1
MaxLikeId == 2
MaxTripLikes == 3
MaxTreeLen == 4      \* comments in one list handed to _build_comment_tree
MaxTreeCalls == 2    \* calls of _build_comment_tree on the same list
NumBoardUsers == 6   \* users receiving karma in the leaderboard's ledger
MaxBoardRows == 7    \* rows of that ledger
MaxUserRows == 2     \* rows of one user in it
MaxContentPosts == 2     \* posts created in the content specification
MaxContentComments == 2  \* comments created in it
NumBodies == 2           \* texts a request can carry
MaxTime == 1         \* latest created_at of a row, in hours

\* ------------------------------------------------- constants of the source
HTTP_200_OK == 200
HTTP_201_CREATED == 201
HTTP_204_NO_CONTENT == 204
HTTP_400_BAD_REQUEST == 400
HTTP_401_UNAUTHORIZED == 401
HTTP_404_NOT_FOUND == 404
HTTP_409_CONFLICT == 409
HTTP_500_SERVER_ERROR == 500
POST_LIKE_POINTS == 5
COMMENT_LIKE_POINTS == 1
NULL == 0
WINDOW_HOURS == 24
LEADERBOARD_LIMIT == 5

Users == 1..NumUsers
Procs == 1..NumProcs
PostIds == 1..MaxPostId
CommentIds == 1..MaxCommentId

VARIABLES
    posts,       \* table feed_post: rows [id, author]
    comments,    \* table feed_comment: rows [id, post, parent, author]
    likes,       \* table feed_like: rows [id, user, post, comment]
    karma,       \* table feed_karmatransaction: rows [user, points, source_type, source_id]
    postSeq, commentSeq, likeSeq,   \* id sequences (last value handed out)
    pc,          \* position of the request a worker slot is serving
    req,         \* the request: [op, user, post, comment, author]
    txLike,      \* Like rows inserted by the slot's open transaction
    txKarma,     \* KarmaTransaction rows inserted by the slot's open transaction
    likeId,      \* like_id read by LikeView.delete
    resp,        \* HTTP status of the finished request
    overlap,     \* history: the slots that were serving a request when this one arrived
    fresh,       \* history: no Like of (user, target) was committed when this one arrived
    treeInput,   \* _build_comment_tree: the list `comments`, rows [id, parent_id]
    treeChildren,\* the `_children` attribute of each object of the list (by position)
    treeRoots,   \* the list the last call returned (positions in the list)
    treeCalls,   \* number of calls made on the list
    treePrev,    \* history: what the call before the last returned and left attached
    ledger,      \* LeaderboardView: feed_karmatransaction rows [id, user, points, created_at]
    board,       \* the list LeaderboardView.get returned: entries [rank, user_id, total_karma]
    boardNow,    \* timezone.now() of that request
    page,        \* the body of the last GET /api/posts/ or GET /api/posts/{id}/ response
    snap,        \* history: the likes and karma sums a reader of the tables has noted
    served       \* the last /api/posts/, /api/comments/ request served with its caller: [op, caller, status]

db == <<posts, comments, likes, karma>>
seqs == <<postSeq, commentSeq, likeSeq>>
procState == <<pc, req, txLike, txKarma, likeId, resp, overlap, fresh>>
storeVars == <<posts, comments, likes, karma, postSeq, commentSeq, likeSeq,
               pc, req, txLike, txKarma, likeId, resp, overlap, fresh>>
treeVars == <<treeInput, treeChildren, treeRoots, treeCalls, treePrev>>
boardVars == <<ledger, board, boardNow>>
watchVars == <<page, snap, served>>
readVars == <<treeVars, boardVars, watchVars>>
vars == <<posts, comments, likes, karma, postSeq, commentSeq, likeSeq,
          pc, req, txLike, txKarma, likeId, resp, overlap, fresh,
          treeInput, treeChildren, treeRoots, treeCalls, treePrev,
          ledger, board, boardNow,
          page, snap, served>>

NoReq == [op |-> "none", user |-> NULL, post |-> NULL, comment |-> NULL, author |-> NULL]

InFlight(p) == pc[p] \notin {"idle", "done"}

\* A request is handed to the first free worker slot.
FirstFree(p) == pc[p] = "idle" /\ \A q \in Procs : q < p => pc[q] # "idle"

\* ----------------------------------------------------------------- queries
PostRow(id) == CHOOSE r \in posts : r.id = id
CommentRow(id) == CHOOSE r \in comments : r.id = id
PostExists(id) == \E r \in posts : r.id = id
CommentExists(id) == \E r \in comments : r.id = id

\* Like.objects.filter(user=u, post_id=post) / filter(user=u, comment_id=comment)
LikesOf(rows, u, post, comment) ==
    {l \in rows : /\ l.user = u
                  /\ \/ post # NULL /\ l.post = post
                     \/ comment # NULL /\ l.comment = comment}

\* Sum of points of a set of ledger rows (Sum('points'))
RECURSIVE SumPoints(_)
SumPoints(rows) ==
    IF rows = {} THEN 0
    ELSE LET r == CHOOSE x \in rows : TRUE IN r.points + SumPoints(rows \ {r})

\* A user's total karma: SUM(points) over the user's KarmaTransactions
TotalKarma(rows, u) == SumPoints({k \in rows : k.user = u})

InitStore ==
    /\ posts = {} /\ comments = {} /\ likes = {} /\ karma = {}
    /\ postSeq = 0 /\ commentSeq = 0 /\ likeSeq = 0
    /\ pc = [p \in Procs |-> "idle"]
    /\ req = [p \in Procs |-> NoReq]
    /\ txLike = [p \in Procs |-> {}]
    /\ txKarma = [p \in Procs |-> {}]
    /\ likeId = [p \in Procs |-> NULL]
    /\ resp = [p \in Procs |-> 0]
    /\ overlap = [p \in Procs |-> {}]
    /\ fresh = [p \in Procs |-> FALSE]

\* No list handed to _build_comment_tree yet
InitTreeIdle ==
    /\ treeInput = <<>> /\ treeChildren = <<>> /\ treeRoots = <<>>
    /\ treeCalls = 0 /\ treePrev = <<>>

\* No leaderboard request yet, empty ledger
InitBoardIdle ==
    /\ ledger = {} /\ board = <<>> /\ boardNow = 0

NoPage == [view |-> "none", caller |-> NULL, posts |-> <<>>, comments |-> <<>>]
NoSnap == [taken |-> FALSE]
NoneServed == [op |-> "none", caller |-> NULL, status |-> 0]

\* No page read, nothing noted, no content request served with its caller yet
InitWatchIdle ==
    /\ page = NoPage /\ snap = NoSnap /\ served = NoneServed

Init == InitStore /\ InitTreeIdle /\ InitBoardIdle /\ InitWatchIdle

\* -------------------------------------------------------- content requests
\* PostViewSet.perform_create: serializer.save(author=request.user), while fewer
\* than max posts were created.  No handler compares the texts of two posts:
\* the text a post is created with is named 1, whatever it is.
PerformCreatePost(u, max) ==
    /\ postSeq < max
    /\ postSeq' = postSeq + 1
    /\ posts' = posts \cup {[id |-> postSeq + 1, author |-> u, body |-> 1]}
    /\ UNCHANGED <<comments, likes, karma, commentSeq, likeSeq>>
    /\ UNCHANGED procState

InsertPost(u, max) == PerformCreatePost(u, max) /\ UNCHANGED readVars

CreatePost(u) == InsertPost(u, MaxPostId)

\* CommentViewSet.perform_create: post and parent are primary keys the
\* serializer resolves (an unknown key is a 400 and writes nothing); nothing
\* relates the parent's post to the comment's post.
PerformCreateComment(u, post, parent, max) ==
    /\ commentSeq < max
    /\ PostExists(post)
    /\ parent = NULL \/ CommentExists(parent)
    /\ commentSeq' = commentSeq + 1
    /\ comments' = comments \cup
          {[id |-> commentSeq + 1, post |-> post, parent |-> parent, author |-> u]}
    /\ UNCHANGED <<posts, likes, karma, postSeq, likeSeq>>
    /\ UNCHANGED procState

InsertComment(u, post, parent, max) == PerformCreateComment(u, post, parent, max) /\ UNCHANGED readVars

CreateComment(u, post, parent) == InsertComment(u, post, parent, MaxCommentId)

\* PostViewSet (ModelViewSet.update / partial_update): permission_classes = []
\* and PostSerializer leaves `body` writable; author and created_at are
\* read-only fields.
PerformUpdatePost(post, b) ==
    /\ PostExists(post)
    /\ posts' = {IF r.id = post THEN [r EXCEPT !.body = b] ELSE r : r \in posts}
    /\ UNCHANGED <<comments, likes, karma, seqs>>
    /\ UNCHANGED procState

UpdatePost(post, b) == PerformUpdatePost(post, b) /\ UNCHANGED readVars

\* CommentViewSet (ModelViewSet.update / partial_update): permission_classes =
\* [] and CommentSerializer leaves `post`, `parent` and `body` writable; each
\* key is resolved against its table and nothing relates one to the other or
\* to the comment updated.
PerformUpdateComment(comment, post, parent) ==
    /\ CommentExists(comment)
    /\ PostExists(post)
    /\ parent = NULL \/ CommentExists(parent)
    /\ comments' = {IF c.id = comment
                    THEN [c EXCEPT !.post = post, !.parent = parent]
                    ELSE c : c \in comments}
    /\ UNCHANGED <<posts, likes, karma, seqs>>
    /\ UNCHANGED procState

UpdateComment(comment, post, parent) == PerformUpdateComment(comment, post, parent) /\ UNCHANGED readVars

\* on_delete=CASCADE along Comment.parent: the comments deleted with the set S
RECURSIVE CascadeComments(_)
CascadeComments(S) ==
    LET T == S \cup {c.id : c \in {x \in comments : x.parent \in S}}
    IN IF T = S THEN S ELSE CascadeComments(T)

\* The Like rows deleted with the posts P and the comments C (Like.post and
\* Like.comment are on_delete=CASCADE).  KarmaTransaction.source_id is a
\* PositiveIntegerField, no foreign key: no ledger row goes with them.
CascadeLikes(P, C) == {l \in likes : l.post \in P \/ l.comment \in C}

\* PostViewSet (ModelViewSet.destroy): permission_classes = []
PerformDestroyPost(post) ==
    /\ PostExists(post)
    /\ LET gone == CascadeComments({c.id : c \in {x \in comments : x.post = post}})
       IN /\ posts' = {r \in posts : r.id # post}
          /\ comments' = {c \in comments : c.id \notin gone}
          /\ likes' = likes \ CascadeLikes({post}, gone)
    /\ UNCHANGED <<karma, seqs>>
    /\ UNCHANGED procState

DeletePost(post) == PerformDestroyPost(post) /\ UNCHANGED readVars

\* CommentViewSet (ModelViewSet.destroy): permission_classes = []
PerformDestroyComment(comment) ==
    /\ CommentExists(comment)
    /\ LET gone == CascadeComments({comment})
       IN /\ comments' = {c \in comments : c.id \notin gone}
          /\ likes' = likes \ CascadeLikes({}, gone)
    /\ UNCHANGED <<posts, karma, seqs>>
    /\ UNCHANGED procState

DeleteComment(comment) == PerformDestroyComment(comment) /\ UNCHANGED readVars

\* ---------------------------------------------------------- POST /api/like/
\* Mutant of LikeSerializerValid: validate() that forgets the "not both" test.
LikeSerializerValidOrBoth(post, comment) ==
    /\ post = NULL \/ PostExists(post)
    /\ comment = NULL \/ CommentExists(comment)
    /\ ~(post = NULL /\ comment = NULL)

\* LikeSerializer: the two PrimaryKeyRelatedFields resolve the keys given
\* (an unknown key is a validation error), then validate() wants exactly one.
LikeSerializerValid(post, comment) ==
    /\ post = NULL \/ PostExists(post)
    /\ comment = NULL \/ CommentExists(comment)
    /\ ~(post # NULL /\ comment # NULL)
    /\ ~(post = NULL /\ comment = NULL)

\* The author of the instance the serializer resolved (like.post.author,
\* like.comment.author); `if like.post:` takes the post first.
TargetAuthor(post, comment) ==
    IF post # NULL THEN PostRow(post).author ELSE CommentRow(comment).author

\* Like ids that requests already admitted may still draw from the sequence
Reserved == Cardinality({q \in Procs : req[q].op = "like" /\ pc[q] \in {"validated", "cleaned"}})

\* LikeView.post, up to the atomic block: serializer.is_valid(raise_exception=True),
\* while fewer than max Like ids were handed out
PostLikeValidateUpTo(p, u, post, comment, max) ==
    /\ FirstFree(p)
    /\ likeSeq + Reserved < max
    /\ overlap' = [overlap EXCEPT ![p] = {q \in Procs \ {p} : InFlight(q)}]
    /\ fresh' = [fresh EXCEPT ![p] = LikesOf(likes, u, post, comment) = {}]
    /\ IF LikeSerializerValid(post, comment)
       THEN /\ pc' = [pc EXCEPT ![p] = "validated"]
            /\ req' = [req EXCEPT ![p] = [op |-> "like", user |-> u, post |-> post,
                           comment |-> comment, author |-> TargetAuthor(post, comment)]]
            /\ UNCHANGED resp
       ELSE /\ pc' = [pc EXCEPT ![p] = "done"]
            /\ req' = [req EXCEPT ![p] = [op |-> "like", user |-> u, post |-> post,
                           comment |-> comment, author |-> NULL]]
            /\ resp' = [resp EXCEPT ![p] = HTTP_400_BAD_REQUEST]
    /\ UNCHANGED <<db, seqs, txLike, txKarma, likeId>>
    /\ UNCHANGED readVars

PostLikeValidate(p, u, post, comment) ==
    PostLikeValidateUpTo(p, u, post, comment, MaxLikeId)

\* Like.clean: exactly one of post / comment
LikeClean(post, comment) ==
    /\ ~(post # NULL /\ comment # NULL)
    /\ ~(post = NULL /\ comment = NULL)

\* Like.Meta.constraints: unique (user, post) where post is not null and
\* unique (user, comment) where comment is not null, against the rows given
UniqueViolation(rows, u, post, comment) == LikesOf(rows, u, post, comment) # {}

\* clean_fields() of the two foreign keys: the referenced row must exist
TargetExists(post, comment) ==
    /\ post = NULL \/ PostExists(post)
    /\ comment = NULL \/ CommentExists(comment)

\* Like.save, first half: self.full_clean() against the committed rows.  Its
\* ValidationError leaves the atomic block (rollback) and LikeView.post
\* catches IntegrityError only.
LikeFullClean(p) ==
    /\ pc[p] = "validated"
    /\ IF /\ TargetExists(req[p].post, req[p].comment)
          /\ LikeClean(req[p].post, req[p].comment)
          /\ ~UniqueViolation(likes, req[p].user, req[p].post, req[p].comment)
       THEN /\ pc' = [pc EXCEPT ![p] = "cleaned"]
            /\ UNCHANGED resp
       ELSE /\ pc' = [pc EXCEPT ![p] = "done"]
            /\ resp' = [resp EXCEPT ![p] = HTTP_500_SERVER_ERROR]
    /\ UNCHANGED <<db, seqs, req, txLike, txKarma, likeId, overlap, fresh>>
    /\ UNCHANGED readVars

\* Mutant of NewLikeRow: the INSERT fills both target columns.
NewLikeRowBothTargets(id, u, post, comment) ==
    [id |-> id, user |-> u,
     post |-> IF post # NULL THEN post ELSE comment,
     comment |-> IF comment # NULL THEN comment ELSE post]

\* The row Like.objects.create(user=request.user, post=post_id, comment=comment_id) writes
NewLikeRow(id, u, post, comment) ==
    [id |-> id, user |-> u, post |-> post, comment |-> comment]

\* Uncommitted Like rows of the other open transactions
OthersLikes(p) == UNION {txLike[q] : q \in Procs \ {p}}

\* Mutant of LikeInsert: the table has no unique index, every INSERT succeeds.
LikeInsertNoUniqueIndex(p) ==
    /\ pc[p] = "cleaned"
    /\ likeSeq' = likeSeq + 1
    /\ pc' = [pc EXCEPT ![p] = "inserted"]
    /\ txLike' = [txLike EXCEPT ![p] =
           {NewLikeRow(likeSeq + 1, req[p].user, req[p].post, req[p].comment)}]
    /\ UNCHANGED <<db, postSeq, commentSeq, req, txKarma, likeId, resp, overlap, fresh>>
    /\ UNCHANGED readVars

\* Like.save, second half: super().save(), the INSERT.  A committed
\* conflicting row is an IntegrityError (409); an uncommitted one makes the
\* INSERT wait for its transaction to end.
LikeInsert(p) ==
    /\ pc[p] = "cleaned"
    /\ ~UniqueViolation(OthersLikes(p), req[p].user, req[p].post, req[p].comment)
    /\ likeSeq' = likeSeq + 1
    /\ IF UniqueViolation(likes, req[p].user, req[p].post, req[p].comment)
       THEN /\ pc' = [pc EXCEPT ![p] = "done"]
            /\ resp' = [resp EXCEPT ![p] = HTTP_409_CONFLICT]
            /\ UNCHANGED txLike
       ELSE /\ pc' = [pc EXCEPT ![p] = "inserted"]
            /\ txLike' = [txLike EXCEPT ![p] =
                   {NewLikeRow(likeSeq + 1, req[p].user, req[p].post, req[p].comment)}]
            /\ UNCHANGED resp
    /\ UNCHANGED <<db, postSeq, commentSeq, req, txKarma, likeId, overlap, fresh>>
    /\ UNCHANGED readVars

\* Mutant of KarmaRow: a like of one's own content earns nothing.
KarmaRowNoSelfCredit(like, author) ==
    IF like.post # NULL
    THEN [user |-> author,
          points |-> IF like.user = author THEN 0 ELSE POST_LIKE_POINTS,
          source_type |-> "post_like", source_id |-> like.id]
    ELSE [user |-> author,
          points |-> IF like.user = author THEN 0 ELSE COMMENT_LIKE_POINTS,
          source_type |-> "comment_like", source_id |-> like.id]

\* Mutant of KarmaRow: the two point values are swapped.
KarmaRowSwappedPoints(like, author) ==
    IF like.post # NULL
    THEN [user |-> author, points |-> COMMENT_LIKE_POINTS,
          source_type |-> "post_like", source_id |-> like.id]
    ELSE [user |-> author, points |-> POST_LIKE_POINTS,
          source_type |-> "comment_like", source_id |-> like.id]

\* The ledger row _create_karma_transaction writes for a Like row
KarmaRow(like, author) ==
    IF like.post # NULL
    THEN [user |-> author, points |-> POST_LIKE_POINTS,
          source_type |-> "post_like", source_id |-> like.id]
    ELSE [user |-> author, points |-> COMMENT_LIKE_POINTS,
          source_type |-> "comment_like", source_id |-> like.id]

\* LikeView._create_karma_transaction(like), inside the same atomic block
CreateKarmaTransaction(p) ==
    /\ pc[p] = "inserted"
    /\ txKarma' = [txKarma EXCEPT ![p] = {KarmaRow(l, req[p].author) : l \in txLike[p]}]
    /\ pc' = [pc EXCEPT ![p] = "credited"]
    /\ UNCHANGED <<db, seqs, req, txLike, likeId, resp, overlap, fresh>>
    /\ UNCHANGED readVars

\* Mutant of LikeCommit: no atomic block, the Like row is published on its
\* own and a failure afterwards leaves it behind.
LikeCommitWithoutKarma(p) ==
    /\ pc[p] = "credited"
    /\ likes' = likes \cup txLike[p]
    /\ IF TargetExists(req[p].post, req[p].comment)
       THEN /\ UNCHANGED karma
            /\ resp' = [resp EXCEPT ![p] = HTTP_201_CREATED]
       ELSE /\ UNCHANGED karma
            /\ resp' = [resp EXCEPT ![p] = HTTP_409_CONFLICT]
    /\ pc' = [pc EXCEPT ![p] = "done"]
    /\ txLike' = [txLike EXCEPT ![p] = {}]
    /\ txKarma' = [txKarma EXCEPT ![p] = {}]
    /\ UNCHANGED <<posts, comments, seqs, req, likeId, overlap, fresh>>
    /\ UNCHANGED readVars

\* Leaving `with transaction.atomic()`: COMMIT checks the deferred foreign
\* keys of the rows written; a missing target is an IntegrityError, caught
\* by `except IntegrityError` (409) after the rollback.
LikeCommit(p) ==
    /\ pc[p] = "credited"
    /\ IF TargetExists(req[p].post, req[p].comment)
       THEN /\ likes' = likes \cup txLike[p]
            /\ karma' = karma \cup txKarma[p]
            /\ resp' = [resp EXCEPT ![p] = HTTP_201_CREATED]
       ELSE /\ UNCHANGED <<likes, karma>>
            /\ resp' = [resp EXCEPT ![p] = HTTP_409_CONFLICT]
    /\ pc' = [pc EXCEPT ![p] = "done"]
    /\ txLike' = [txLike EXCEPT ![p] = {}]
    /\ txKarma' = [txKarma EXCEPT ![p] = {}]
    /\ UNCHANGED <<posts, comments, seqs, req, likeId, overlap, fresh>>
    /\ UNCHANGED readVars

\* -------------------------------------------------------- DELETE /api/like/
\* LikeView.delete, up to the atomic block: the raw ids of request.data
DeleteLikeStart(p, u, post, comment) ==
    /\ FirstFree(p)
    /\ UNCHANGED <<overlap, fresh>>
    /\ req' = [req EXCEPT ![p] = [op |-> "unlike", user |-> u, post |-> post,
                   comment |-> comment, author |-> NULL]]
    /\ IF post = NULL /\ comment = NULL
       THEN /\ pc' = [pc EXCEPT ![p] = "done"]
            /\ resp' = [resp EXCEPT ![p] = HTTP_400_BAD_REQUEST]
       ELSE /\ pc' = [pc EXCEPT ![p] = "started"]
            /\ UNCHANGED resp
    /\ UNCHANGED <<db, seqs, txLike, txKarma, likeId>>
    /\ UNCHANGED readVars

\* Like.objects.get(user=request.user, post_id=post_id) if post_id, else
\* Like.objects.get(user=request.user, comment_id=comment_id)
LikeGet(u, post, comment) ==
    IF post # NULL THEN {l \in likes : l.user = u /\ l.post = post}
    ELSE {l \in likes : l.user = u /\ l.comment = comment}

\* Mutant of DeleteLikeGet: Like.DoesNotExist answered as a success.
DeleteLikeGetMasksNotFound(p) ==
    /\ pc[p] = "started"
    /\ LET found == LikeGet(req[p].user, req[p].post, req[p].comment)
       IN IF found = {}
          THEN /\ pc' = [pc EXCEPT ![p] = "done"]
               /\ resp' = [resp EXCEPT ![p] = HTTP_204_NO_CONTENT]
               /\ UNCHANGED likeId
          ELSE /\ pc' = [pc EXCEPT ![p] = "found"]
               /\ likeId' = [likeId EXCEPT ![p] = (CHOOSE l \in found : TRUE).id]
               /\ UNCHANGED resp
    /\ UNCHANGED <<db, seqs, req, txLike, txKarma, overlap, fresh>>
    /\ UNCHANGED readVars

\* The lookup of LikeView.delete: Like.DoesNotExist is the 404; more than
\* one row is MultipleObjectsReturned, which nothing catches.
DeleteLikeGet(p) ==
    /\ pc[p] = "started"
    /\ LET found == LikeGet(req[p].user, req[p].post, req[p].comment)
       IN \/ /\ found = {}
             /\ pc' = [pc EXCEPT ![p] = "done"]
             /\ resp' = [resp EXCEPT ![p] = HTTP_404_NOT_FOUND]
             /\ UNCHANGED likeId
          \/ /\ Cardinality(found) > 1
             /\ pc' = [pc EXCEPT ![p] = "done"]
             /\ resp' = [resp EXCEPT ![p] = HTTP_500_SERVER_ERROR]
             /\ UNCHANGED likeId
          \/ /\ Cardinality(found) = 1
             /\ pc' = [pc EXCEPT ![p] = "found"]
             /\ likeId' = [likeId EXCEPT ![p] = (CHOOSE l \in found : TRUE).id]
             /\ UNCHANGED resp
    /\ UNCHANGED <<db, seqs, req, txLike, txKarma, overlap, fresh>>
    /\ UNCHANGED readVars

\* source_type = 'post_like' if post_id else 'comment_like'
SourceType(post) == IF post # NULL THEN "post_like" ELSE "comment_like"

\* Mutant of KarmaOfLike: the filter forgets source_id.
KarmaOfLikeAnyId(rows, source_type, like_id) ==
    {k \in rows : k.source_type = source_type}

\* KarmaTransaction.objects.filter(source_type=..., source_id=like_id)
KarmaOfLike(rows, source_type, like_id) ==
    {k \in rows : k.source_type = source_type /\ k.source_id = like_id}

\* Mutant of DeleteLikeCommit: the ledger rows of the like stay behind.
DeleteLikeCommitKeepsKarma(p) ==
    /\ pc[p] = "found"
    /\ likes' = {l \in likes : l.id # likeId[p]}
    /\ pc' = [pc EXCEPT ![p] = "done"]
    /\ resp' = [resp EXCEPT ![p] = HTTP_204_NO_CONTENT]
    /\ UNCHANGED <<posts, comments, karma, seqs, req, txLike, txKarma, likeId,
                   overlap, fresh>>
    /\ UNCHANGED readVars

\* Mutant of DeleteLikeCommit: like.delete() is left out.
DeleteLikeCommitKeepsLike(p) ==
    /\ pc[p] = "found"
    /\ karma' = karma \ KarmaOfLike(karma, SourceType(req[p].post), likeId[p])
    /\ pc' = [pc EXCEPT ![p] = "done"]
    /\ resp' = [resp EXCEPT ![p] = HTTP_204_NO_CONTENT]
    /\ UNCHANGED <<posts, comments, likes, seqs, req, txLike, txKarma, likeId,
                   overlap, fresh>>
    /\ UNCHANGED readVars

\* The writes of LikeView.delete and the COMMIT that publishes them: the
\* ledger rows of the like found, then the Like row with its id.  Both
\* DELETEs act on the rows committed by then (none is an error).
DeleteLikeCommit(p) ==
    /\ pc[p] = "found"
    /\ karma' = karma \ KarmaOfLike(karma, SourceType(req[p].post), likeId[p])
    /\ likes' = {l \in likes : l.id # likeId[p]}
    /\ pc' = [pc EXCEPT ![p] = "done"]
    /\ resp' = [resp EXCEPT ![p] = HTTP_204_NO_CONTENT]
    /\ UNCHANGED <<posts, comments, seqs, req, txLike, txKarma, likeId, overlap, fresh>>
    /\ UNCHANGED readVars

\* The response leaves the worker; the slot is free for the next request.
Respond(p) ==
    /\ pc[p] = "done"
    /\ pc' = [pc EXCEPT ![p] = "idle"]
    /\ req' = [req EXCEPT ![p] = NoReq]
    /\ resp' = [resp EXCEPT ![p] = 0]
    /\ likeId' = [likeId EXCEPT ![p] = NULL]
    /\ overlap' = [q \in Procs |-> IF q = p THEN {} ELSE overlap[q] \ {p}]
    /\ fresh' = [fresh EXCEPT ![p] = FALSE]
    /\ UNCHANGED <<db, seqs, txLike, txKarma>>
    /\ UNCHANGED readVars

\* ------------------------------------------------------------ specification
TargetArgs == {NULL} \cup PostIds
CommentArgs == {NULL} \cup CommentIds

Next ==
    \/ \E u \in Users : CreatePost(u)
    \/ \E u \in Users, post \in PostIds, parent \in CommentArgs : CreateComment(u, post, parent)
    \/ \E post \in PostIds : DeletePost(post)
    \/ \E comment \in CommentIds : DeleteComment(comment)
    \/ \E p \in Procs, u \in Users, post \in TargetArgs, comment \in CommentArgs :
           PostLikeValidate(p, u, post, comment)
    \/ \E p \in Procs : LikeFullClean(p)
    \/ \E p \in Procs : LikeInsert(p)
    \/ \E p \in Procs : CreateKarmaTransaction(p)
    \/ \E p \in Procs : LikeCommit(p)
    \/ \E p \in Procs, u \in Users, post \in TargetArgs, comment \in CommentArgs :
           DeleteLikeStart(p, u, post, comment)
    \/ \E p \in Procs : DeleteLikeGet(p)
    \/ \E p \in Procs : DeleteLikeCommit(p)
    \/ \E p \in Procs : Respond(p)

Spec == Init /\ [][Next]_vars

\* The same requests without the deletion of content: posts and comments are
\* created, likes are created and removed.
NextLikes ==
    \/ \E u \in Users : CreatePost(u)
    \/ \E u \in Users, post \in PostIds, parent \in CommentArgs : CreateComment(u, post, parent)
    \/ \E p \in Procs, u \in Users, post \in TargetArgs, comment \in CommentArgs :
           PostLikeValidate(p, u, post, comment)
    \/ \E p \in Procs : LikeFullClean(p)
    \/ \E p \in Procs : LikeInsert(p)
    \/ \E p \in Procs : CreateKarmaTransaction(p)
    \/ \E p \in Procs : LikeCommit(p)
    \/ \E p \in Procs, u \in Users, post \in TargetArgs, comment \in CommentArgs :
           DeleteLikeStart(p, u, post, comment)
    \/ \E p \in Procs : DeleteLikeGet(p)
    \/ \E p \in Procs : DeleteLikeCommit(p)
    \/ \E p \in Procs : Respond(p)

SpecLikes == Init /\ [][NextLikes]_vars

\* The steps the server takes for the request in slot p once it has started.
\* Each request runs in a worker of its own and the database serves every
\* session, so a step that stays possible is eventually taken; a blocked
\* INSERT becomes possible when the transaction it waits for has ended.
SlotStep(p) ==
    \/ LikeFullClean(p)
    \/ LikeInsert(p)
    \/ CreateKarmaTransaction(p)
    \/ LikeCommit(p)
    \/ DeleteLikeGet(p)
    \/ DeleteLikeCommit(p)

FairLikes == Init /\ [][NextLikes]_vars /\ \A p \in Procs : WF_vars(SlotStep(p))

\* ------------------------------------------- PostViewSet._build_comment_tree
\* The function works on a list of Comment objects.  An object is named by
\* its position in the list; its `_children` attribute is treeChildren[pos],
\* a list of positions.  A missing attribute reads as the empty list
\* (CommentSerializer.get_children: getattr(obj, '_children', [])).
TreeIds == 1..(MaxTreeLen + 1)
TreeParents == {NULL} \cup TreeIds

RECURSIVE Ascending(_)
Ascending(S) ==
    IF S = {} THEN <<>>
    ELSE LET m == CHOOSE x \in S : \A y \in S : x <= y
         IN <<m>> \o Ascending(S \ {m})

\* The lists retrieve() can fetch: primary keys are distinct and a list comes
\* ordered by created_at, i.e. with increasing keys; parent_id is any key or
\* NULL, present in the list or not.  TreeList(S, ps) is the list of the
\* comments with the keys S and the parent ids ps.
TreeList(S, ps) ==
    LET ids == Ascending(S)
    IN  [i \in DOMAIN ids |-> [id |-> ids[i], parent_id |-> ps[i]]]

InitTree ==
    /\ InitStore /\ InitBoardIdle /\ InitWatchIdle
    /\ \E S \in SUBSET TreeIds :
          /\ Cardinality(S) <= MaxTreeLen
          /\ \E ps \in [1..Cardinality(S) -> TreeParents] :
                treeInput = TreeList(S, ps)
    /\ treeChildren = [i \in DOMAIN treeInput |-> <<>>]
    /\ treeRoots = <<>>
    /\ treeCalls = 0
    /\ treePrev = <<>>

ResetChildrenKeepsAttached(list, attached) == attached

\* First pass: comment._children = [] on every object, whatever it carried
ResetChildren(list, attached) == [i \in DOMAIN list |-> <<>>]

\* comment_map = {comment.id: comment for comment in comments}: a later
\* object replaces an earlier one under the same key
CommentMap(list) ==
    [k \in {list[i].id : i \in DOMAIN list} |->
        CHOOSE i \in DOMAIN list :
            /\ list[i].id = k
            /\ \A j \in DOMAIN list : list[j].id = k => j <= i]

PlaceFirst(list, i, acc) ==
    LET map == CommentMap(list)
        pid == list[i].parent_id
    IN  IF pid = NULL
        THEN [acc EXCEPT !.roots = <<i>> \o @]
        ELSE IF pid \in DOMAIN map
             THEN [acc EXCEPT !.children[map[pid]] = <<i>> \o @]
             ELSE acc

PlaceOrphanAsRoot(list, i, acc) ==
    LET map == CommentMap(list)
        pid == list[i].parent_id
    IN  IF pid = NULL \/ pid \notin DOMAIN map
        THEN [acc EXCEPT !.roots = Append(@, i)]
        ELSE [acc EXCEPT !.children[map[pid]] = Append(@, i)]

\* One turn of the second loop: the body run for the object list[i]
Place(list, i, acc) ==
    LET map == CommentMap(list)
        pid == list[i].parent_id
    IN  IF pid = NULL
        THEN [acc EXCEPT !.roots = Append(@, i)]
        ELSE IF pid \in DOMAIN map
             THEN [acc EXCEPT !.children[map[pid]] = Append(@, i)]
             ELSE acc

\* The second loop from list[i] to the end of the list
RECURSIVE SecondPass(_, _, _)
SecondPass(list, i, acc) ==
    IF i > Len(list) THEN acc
    ELSE SecondPass(list, i + 1, Place(list, i, acc))

\* The whole function: the returned list `roots` and the `_children` left on
\* the objects
BuildCommentTree(list, attached) ==
    SecondPass(list, 1,
               [roots |-> <<>>, children |-> ResetChildren(list, attached)])

FlattenWithoutChildren(children, nodes) == nodes

\* The comments of a response, in the order they are written:
\* PostDetailSerializer.get_comments serializes the returned list, and
\* CommentSerializer.get_children serializes the `_children` of every comment
\* it writes, recursively.
RECURSIVE Flatten(_, _)
Flatten(children, nodes) ==
    IF nodes = <<>> THEN <<>>
    ELSE <<Head(nodes)>> \o Flatten(children, children[Head(nodes)])
         \o Flatten(children, Tail(nodes))

\* A call of the function on the list, on the objects as the call before left them
CallBuildCommentTree ==
    /\ treeCalls < MaxTreeCalls
    /\ LET r == BuildCommentTree(treeInput, treeChildren)
       IN  /\ treeRoots' = r.roots
           /\ treeChildren' = r.children
    /\ treePrev' = IF treeCalls = 0 THEN <<>>
                   ELSE [roots |-> treeRoots, children |-> treeChildren]
    /\ treeCalls' = treeCalls + 1
    /\ UNCHANGED <<treeInput, storeVars, boardVars, watchVars>>

NextTree == CallBuildCommentTree

SpecTree == InitTree /\ [][NextTree]_vars

\* ------------------------------------------------------ GET /api/leaderboard/
\* Time is counted in hours.  The ledger read by the query holds rows
\* [id, user, points, created_at]; a request is served at an instant `now`
\* that no row is younger than.  A behaviour records a ledger and then serves
\* one request on it; boardNow = 0 says that no request was served yet.
BoardUsers == 1..NumBoardUsers
Points == {COMMENT_LIKE_POINTS, POST_LIKE_POINTS}
Times == 0..MaxTime
Nows == WINDOW_HOURS..(WINDOW_HOURS + MaxTime)

\* The query reads a user id only to group by it and never reads a row id, so
\* one ledger stands for all those that differ from it by renaming users or
\* reordering inserts: rows are recorded user by user, a user's rows by
\* non-decreasing (created_at, points), users by non-increasing histories.
RowCode(t, pts) == t * (POST_LIKE_POINTS + 1) + pts
History(rows, u) ==
    LET ids == Ascending({r.id : r \in {x \in rows : x.user = u}})
    IN  [k \in DOMAIN ids |->
            LET r == CHOOSE x \in rows : x.id = ids[k]
            IN  RowCode(r.created_at, r.points)]

RECURSIVE LexLeq(_, _)
LexLeq(a, b) ==
    IF a = <<>> THEN TRUE
    ELSE IF b = <<>> THEN FALSE
    ELSE IF Head(a) # Head(b) THEN Head(a) < Head(b)
    ELSE LexLeq(Tail(a), Tail(b))

LastUser(rows) ==
    IF rows = {} THEN 0
    ELSE CHOOSE u \in {r.user : r \in rows} : \A r \in rows : r.user <= u

\* KarmaTransaction.objects.create(user, points, ...) with created_at = t
RecordKarma(u, pts, t) ==
    LET row == [id |-> Cardinality(ledger) + 1, user |-> u,
                points |-> pts, created_at |-> t]
        new == ledger \cup {row}
        old == History(ledger, u)
    IN  /\ boardNow = 0
        /\ Cardinality(ledger) < MaxBoardRows
        /\ u \in {LastUser(ledger), LastUser(ledger) + 1}
        /\ Len(old) < MaxUserRows
        /\ old # <<>> => old[Len(old)] <= RowCode(t, pts)
        /\ u > 1 => LexLeq(History(new, u), History(ledger, u - 1))
        /\ ledger' = new
        /\ UNCHANGED <<board, boardNow, storeVars, treeVars, watchVars>>

\* cutoff = timezone.now() - timedelta(hours=24)
Cutoff(now) == now - WINDOW_HOURS

InWindowExclusive(rows, now) == {r \in rows : r.created_at > Cutoff(now)}

InWindowIgnoresCutoff(rows, now) == rows

\* .filter(created_at__gte=cutoff)
InWindow(rows, now) == {r \in rows : r.created_at >= Cutoff(now)}

\* .values('user_id'): one group per user that has a row
Groups(rows) == {r.user : r \in rows}

\* .order_by('-total_karma'): the users by decreasing total.  SQL leaves the
\* order of rows with equal sort keys to the executor: every such order is a
\* possible result.
RECURSIVE OrderByTotalDesc(_, _)
OrderByTotalDesc(rows, users) ==
    IF users = {} THEN {<<>>}
    ELSE UNION {{<<u>> \o rest : rest \in OrderByTotalDesc(rows, users \ {u})} :
                u \in {v \in users : \A w \in users :
                            TotalKarma(rows, v) >= TotalKarma(rows, w)}}

SliceOneMore(order) ==
    SubSeq(order, 1, IF Len(order) < LEADERBOARD_LIMIT + 1
                     THEN Len(order) ELSE LEADERBOARD_LIMIT + 1)

\* [:5]
Slice(order) ==
    SubSeq(order, 1, IF Len(order) < LEADERBOARD_LIMIT
                     THEN Len(order) ELSE LEADERBOARD_LIMIT)

\* for rank, entry in enumerate(leaderboard, start=1): result.append({...})
Entries(rows, order) ==
    [k \in DOMAIN order |->
        [rank |-> k, user_id |-> order[k],
         total_karma |-> TotalKarma(rows, order[k])]]

\* The responses the view can give for a ledger at the instant now
Leaderboards(rows, now) ==
    LET recent == InWindow(rows, now)
    IN  {Entries(recent, Slice(order)) :
            order \in OrderByTotalDesc(recent, Groups(recent))}

\* LeaderboardView.get served at the instant now
LeaderboardGet(now) ==
    /\ boardNow = 0
    /\ board' \in Leaderboards(ledger, now)
    /\ boardNow' = now
    /\ UNCHANGED <<ledger, storeVars, treeVars, watchVars>>

InitBoard == InitStore /\ InitTreeIdle /\ InitBoardIdle /\ InitWatchIdle

NextBoard ==
    \/ \E u \in BoardUsers, pts \in Points, t \in Times : RecordKarma(u, pts, t)
    \/ \E now \in Nows : LeaderboardGet(now)

SpecBoard == InitBoard /\ [][NextBoard]_vars

\* ------------------------------------------ /api/posts/ and /api/comments/
\* The content requests alone, on more posts and comments than the ledger
\* specification creates.  Each one is a single statement of the ORM.
ContentPostIds == 1..MaxContentPosts
ContentCommentIds == 1..MaxContentComments
Bodies == 1..NumBodies

NextContent ==
    \/ \E u \in Users : InsertPost(u, MaxContentPosts)
    \/ \E post \in ContentPostIds, b \in Bodies : UpdatePost(post, b)
    \/ \E post \in ContentPostIds : DeletePost(post)
    \/ \E u \in Users, post \in ContentPostIds,
          parent \in {NULL} \cup ContentCommentIds :
            InsertComment(u, post, parent, MaxContentComments)
    \/ \E comment \in ContentCommentIds, post \in ContentPostIds,
          parent \in {NULL} \cup ContentCommentIds :
            UpdateComment(comment, post, parent)
    \/ \E comment \in ContentCommentIds : DeleteComment(comment)

SpecContent == Init /\ [][NextContent]_vars

\* ------------------------------------- GET /api/posts/, GET /api/posts/{id}/
\* A request carries its user or none (JWTAuthentication, AllowAny).
Callers == {NULL} \cup Users

Descending(S) ==
    LET up == Ascending(S) IN [i \in DOMAIN up |-> up[Len(up) + 1 - i]]

\* The related keys a LEFT OUTER JOIN pairs a row with: NULL when there is none
Outer(S) == IF S = {} THEN {NULL} ELSE S

\* The rows of feed_post LEFT OUTER JOIN feed_like LEFT OUTER JOIN
\* feed_comment for one post: pairs <<like id, comment id>>
PostJoin(post) ==
    Outer({l.id : l \in {x \in likes : x.post = post}})
        \X Outer({c.id : c \in {x \in comments : x.post = post}})

\* The rows of feed_comment LEFT OUTER JOIN feed_like for one comment
CommentJoin(comment) ==
    Outer({l.id : l \in {x \in likes : x.comment = comment}}) \X {NULL}

\* Mutant of CountDistinct: COUNT(col), every joined row counted
CountAll(rows, col) == Cardinality({r \in rows : r[col] # NULL})

\* Count(..., distinct=True): COUNT(DISTINCT col) over the joined rows
CountDistinct(rows, col) == Cardinality({r[col] : r \in rows} \ {NULL})

\* get_user_has_liked of both serializers: no view sets _prefetched_likes, so
\* an authenticated request runs obj.likes.filter(user_id=user_id).exists()
UserHasLiked(caller, post, comment) ==
    IF caller # NULL THEN LikesOf(likes, caller, post, comment) # {} ELSE FALSE

\* PostSerializer on a row of get_queryset()
PostData(caller, post) ==
    [id |-> post,
     like_count |-> CountDistinct(PostJoin(post), 1),
     comment_count |-> CountDistinct(PostJoin(post), 2),
     user_has_liked |-> UserHasLiked(caller, post, NULL)]

\* CommentSerializer on a row of the query of retrieve()
CommentData(caller, comment) ==
    [id |-> comment,
     like_count |-> CountDistinct(CommentJoin(comment), 1),
     user_has_liked |-> UserHasLiked(caller, NULL, comment)]

\* Comment.objects.filter(post=post)...order_by('created_at') as a list
CommentList(post) ==
    LET ids == Ascending({c.id : c \in {x \in comments : x.post = post}})
    IN  [i \in DOMAIN ids |-> [id |-> ids[i], parent_id |-> CommentRow(ids[i]).parent]]

\* PostViewSet.list: get_queryset() in order_by('-created_at'), PostSerializer
PostList(caller) ==
    /\ LET ids == Descending({r.id : r \in posts})
       IN  page' = [view |-> "list", caller |-> caller,
                    posts |-> [i \in DOMAIN ids |-> PostData(caller, ids[i])],
                    comments |-> <<>>]
    /\ UNCHANGED <<storeVars, treeVars, boardVars, snap, served>>

\* PostViewSet.retrieve: get_object(), the comments of the post in one query,
\* _build_comment_tree on fresh objects, PostDetailSerializer
PostRetrieve(caller, post) ==
    /\ PostExists(post)
    /\ LET list == CommentList(post)
           tree == BuildCommentTree(list, [i \in DOMAIN list |-> <<>>])
           out == Flatten(tree.children, tree.roots)
       IN  page' = [view |-> "detail", caller |-> caller,
                    posts |-> <<PostData(caller, post)>>,
                    comments |-> [i \in DOMAIN out |-> CommentData(caller, list[out[i]].id)]]
    /\ UNCHANGED <<storeVars, treeVars, boardVars, snap, served>>

\* No request is being served: the next one arrives after the last one was
\* answered
Quiet == \A q \in Procs : pc[q] = "idle"

\* No page was read yet
Unread == page = NoPage

\* Likes and unlikes one after the other on one post and its comments, and
\* the two reads of posts.  A behaviour is followed up to its first read (the
\* requests in flight at the read still end): a page is compared with the
\* tables as they are when it is read.
NextRead ==
    \/ \E u \in Users : Unread /\ CreatePost(u)
    \/ \E u \in Users, post \in PostIds, parent \in {NULL} \cup ContentCommentIds :
          Unread /\ InsertComment(u, post, parent, MaxContentComments)
    \/ \E p \in Procs, u \in Users, post \in TargetArgs, comment \in {NULL} \cup ContentCommentIds :
          Quiet /\ Unread /\ PostLikeValidate(p, u, post, comment)
    \/ \E p \in Procs : LikeFullClean(p)
    \/ \E p \in Procs : LikeInsert(p)
    \/ \E p \in Procs : CreateKarmaTransaction(p)
    \/ \E p \in Procs : LikeCommit(p)
    \/ \E p \in Procs, u \in Users, post \in TargetArgs, comment \in {NULL} \cup ContentCommentIds :
          Quiet /\ Unread /\ DeleteLikeStart(p, u, post, comment)
    \/ \E p \in Procs : DeleteLikeGet(p)
    \/ \E p \in Procs : DeleteLikeCommit(p)
    \/ \E p \in Procs : Respond(p)
    \/ \E caller \in Callers : Unread /\ PostList(caller)
    \/ \E caller \in Callers, post \in PostIds : Unread /\ PostRetrieve(caller, post)

SpecRead == Init /\ [][NextRead]_vars

\* ------------------------------------------------ the like / unlike round trip
\* The (user, target) pairs of a set of Like rows
Pairs(rows) == {<<l.user, l.post, l.comment>> : l \in rows}

\* Every user's summed karma
Sums(rows) == [u \in Users |-> TotalKarma(rows, u)]

\* the request in slot p is about the user and target the reader noted
Noted(p) ==
    /\ snap.taken
    /\ req[p].user = snap.user /\ req[p].post = snap.post /\ req[p].comment = snap.comment

\* No request is being served, and the only answer still held by a slot is a
\* 204 to a remove-like of the noted user on the noted target
Settled ==
    \A q \in Procs :
        \/ pc[q] = "idle"
        \/ /\ pc[q] = "done" /\ req[q].op = "unlike" /\ Noted(q)
           /\ resp[q] = HTTP_204_NO_CONTENT

\* A reader of feed_like and feed_karmatransaction notes, once in a
\* behaviour and while no request is being served, the rows and sums as they
\* are, together with a user and an existing target the user does not like.
Observe(u, post, comment) ==
    /\ snap = NoSnap
    /\ Quiet
    /\ LikeSerializerValid(post, comment)
    /\ LikesOf(likes, u, post, comment) = {}
    /\ snap' = [taken |-> TRUE, user |-> u, post |-> post, comment |-> comment,
                likes |-> likes, sums |-> Sums(karma), likeSeq |-> likeSeq]
    /\ UNCHANGED <<storeVars, treeVars, boardVars, page, served>>

\* Likes and unlikes served one after the other, and the reader.  The answer
\* to the remove-like of a round trip may stay in its slot while the next
\* request is served.
NextTrip ==
    \/ \E u \in Users : CreatePost(u)
    \/ \E u \in Users, post \in PostIds, parent \in CommentArgs : CreateComment(u, post, parent)
    \/ \E p \in Procs, u \in Users, post \in TargetArgs, comment \in CommentArgs :
          Settled /\ PostLikeValidateUpTo(p, u, post, comment, MaxTripLikes)
    \/ \E p \in Procs : LikeFullClean(p)
    \/ \E p \in Procs : LikeInsert(p)
    \/ \E p \in Procs : CreateKarmaTransaction(p)
    \/ \E p \in Procs : LikeCommit(p)
    \/ \E p \in Procs, u \in Users, post \in TargetArgs, comment \in CommentArgs :
          Settled /\ DeleteLikeStart(p, u, post, comment)
    \/ \E p \in Procs : DeleteLikeGet(p)
    \/ \E p \in Procs : DeleteLikeCommit(p)
    \/ \E p \in Procs : Respond(p)
    \/ \E u \in Users, post \in TargetArgs, comment \in CommentArgs : Observe(u, post, comment)

SpecTrip == Init /\ [][NextTrip]_vars

\* ------------------------------------------------ requests with their caller
\* The write requests as the views serve them for a caller, who is a user or
\* no one (NULL): what each view checks about the caller, the status it
\* answers, and the rows it writes.
Answer(op, caller, status) ==
    /\ served' = [op |-> op, caller |-> caller, status |-> status]
    /\ UNCHANGED <<treeVars, boardVars, page, snap>>

\* POST /api/posts/: perform_create raises AuthenticationFailed (401) for a
\* request without user, else saves
PostCreate(caller) ==
    /\ \/ /\ caller = NULL
          /\ Answer("create_post", caller, HTTP_401_UNAUTHORIZED)
          /\ UNCHANGED storeVars
       \/ /\ caller # NULL
          /\ PerformCreatePost(caller, MaxContentPosts)
          /\ Answer("create_post", caller, HTTP_201_CREATED)

\* PUT/PATCH /api/posts/{id}/: permission_classes = [] and no perform_update:
\* get_object() (404) and the save
PostUpdate(caller, post, b) ==
    /\ \/ /\ ~PostExists(post)
          /\ Answer("update_post", caller, HTTP_404_NOT_FOUND)
          /\ UNCHANGED storeVars
       \/ /\ PerformUpdatePost(post, b)
          /\ Answer("update_post", caller, HTTP_200_OK)

\* DELETE /api/posts/{id}/: permission_classes = [] and no perform_destroy
PostDestroy(caller, post) ==
    /\ \/ /\ ~PostExists(post)
          /\ Answer("destroy_post", caller, HTTP_404_NOT_FOUND)
          /\ UNCHANGED storeVars
       \/ /\ PerformDestroyPost(post)
          /\ Answer("destroy_post", caller, HTTP_204_NO_CONTENT)

\* the keys of a comment request resolve
CommentKeysValid(post, parent) ==
    PostExists(post) /\ (parent = NULL \/ CommentExists(parent))

\* POST /api/comments/: serializer.is_valid(raise_exception=True) (400), then
\* perform_create raises AuthenticationFailed (401) for a request without user
CommentCreate(caller, post, parent) ==
    /\ \/ /\ ~CommentKeysValid(post, parent)
          /\ Answer("create_comment", caller, HTTP_400_BAD_REQUEST)
          /\ UNCHANGED storeVars
       \/ /\ CommentKeysValid(post, parent)
          /\ caller = NULL
          /\ Answer("create_comment", caller, HTTP_401_UNAUTHORIZED)
          /\ UNCHANGED storeVars
       \/ /\ caller # NULL
          /\ PerformCreateComment(caller, post, parent, MaxContentComments)
          /\ Answer("create_comment", caller, HTTP_201_CREATED)

\* PUT/PATCH /api/comments/{id}/: permission_classes = [] and no
\* perform_update: get_object() (404), is_valid (400) and the save
CommentUpdate(caller, comment, post, parent) ==
    /\ \/ /\ ~CommentExists(comment)
          /\ Answer("update_comment", caller, HTTP_404_NOT_FOUND)
          /\ UNCHANGED storeVars
       \/ /\ CommentExists(comment)
          /\ ~CommentKeysValid(post, parent)
          /\ Answer("update_comment", caller, HTTP_400_BAD_REQUEST)
          /\ UNCHANGED storeVars
       \/ /\ PerformUpdateComment(comment, post, parent)
          /\ Answer("update_comment", caller, HTTP_200_OK)

\* DELETE /api/comments/{id}/: permission_classes = [] and no perform_destroy
CommentDestroy(caller, comment) ==
    /\ \/ /\ ~CommentExists(comment)
          /\ Answer("destroy_comment", caller, HTTP_404_NOT_FOUND)
          /\ UNCHANGED storeVars
       \/ /\ PerformDestroyComment(comment)
          /\ Answer("destroy_comment", caller, HTTP_204_NO_CONTENT)

\* POST and DELETE /api/like/ without user: permission_classes =
\* [IsAuthenticated] ends the request before the handler runs
LikeNotAuthenticated(op) ==
    /\ Answer(op, NULL, HTTP_401_UNAUTHORIZED)
    /\ UNCHANGED storeVars

NextAuth ==
    \/ \E caller \in Callers : PostCreate(caller)
    \/ \E caller \in Callers, post \in ContentPostIds, b \in Bodies : PostUpdate(caller, post, b)
    \/ \E caller \in Callers, post \in ContentPostIds : PostDestroy(caller, post)
    \/ \E caller \in Callers, post \in ContentPostIds, parent \in {NULL} \cup ContentCommentIds :
          CommentCreate(caller, post, parent)
    \/ \E caller \in Callers, comment \in ContentCommentIds, post \in ContentPostIds,
          parent \in {NULL} \cup ContentCommentIds :
            CommentUpdate(caller, comment, post, parent)
    \/ \E caller \in Callers, comment \in ContentCommentIds : CommentDestroy(caller, comment)
    \/ \E op \in {"like", "unlike"} : LikeNotAuthenticated(op)

SpecAuth == Init /\ [][NextAuth]_vars

\* =================================================================== claims
\* Helpers of the claims' formulas
IsLike(p) == req[p].op = "like"
IsUnlike(p) == req[p].op = "unlike"
SameTarget(p, q) ==
    /\ req[p].user = req[q].user
    /\ req[p].post = req[q].post
    /\ req[p].comment = req[q].comment
OnePost(p) == req[p].post # NULL /\ req[p].comment = NULL
OneComment(p) == req[p].post = NULL /\ req[p].comment # NULL
\* p's request ends in this step
Finishes(p) == pc[p] # "done" /\ pc'[p] = "done"

\* C1: two concurrent create-like(u, p) requests on an existing post no one
\* has liked yet end with exactly one 201 and one 409, under every
\* interleaving of their steps.
C1_ExactlyOneWinsOtherConflicts ==
    \A p, q \in Procs :
        ( /\ p # q
          /\ pc[p] = "done" /\ pc[q] = "done"
          /\ IsLike(p) /\ IsLike(q) /\ SameTarget(p, q)
          /\ OnePost(p) /\ PostExists(req[p].post)
          /\ q \in overlap[p]
          /\ fresh[p] /\ fresh[q] )
        => {resp[p], resp[q]} = {HTTP_201_CREATED, HTTP_409_CONFLICT}

\* C2: the committed table holds at most one Like per (user, post) and at
\* most one per (user, comment).
C2_AtMostOneLikePerTarget ==
    \A a, b \in likes :
        ( /\ a.user = b.user
          /\ \/ a.post # NULL /\ a.post = b.post
             \/ a.comment # NULL /\ a.comment = b.comment )
        => a = b

\* A create-like lost against a Like that is in the table
C2_Witness ==
    \E p \in Procs :
        /\ pc[p] = "done" /\ IsLike(p) /\ resp[p] = HTTP_409_CONFLICT
        /\ UniqueViolation(likes, req[p].user, req[p].post, req[p].comment)

\* C3: applyLike is all-or-nothing.  A step of a create-like request either
\* leaves both tables as they are, or is the 201 commit, which publishes
\* the Like row and the ledger row sourced from it together; a request that
\* ends otherwise leaves no row behind; no committed Like lacks its ledger row.
C3_Step(p) ==
    ( /\ pc[p] # "done" /\ pc'[p] # pc[p] /\ req'[p].op = "like" )
    => /\ \/ likes' = likes /\ karma' = karma
          \/ /\ resp'[p] = HTTP_201_CREATED
             /\ \E l \in txLike[p], k \in txKarma[p] :
                   /\ l \notin likes /\ k \notin karma
                   /\ likes' = likes \cup {l}
                   /\ karma' = karma \cup {k}
                   /\ k.source_id = l.id
       /\ (pc'[p] = "done" /\ resp'[p] # HTTP_201_CREATED)
             => /\ likes' = likes /\ karma' = karma
                /\ txLike'[p] = {} /\ txKarma'[p] = {}

C3_AllOrNothing ==
    [][ /\ \A p \in Procs : C3_Step(p)
        /\ \A l \in likes' : \E k \in karma' :
               k.source_id = l.id /\ k.source_type = SourceType(l.post) ]_vars

\* One create-like committed, another one rejected as a duplicate
C3_Witness ==
    \E p, q \in Procs :
        /\ pc[p] = "done" /\ IsLike(p) /\ resp[p] = HTTP_201_CREATED
        /\ \E l \in likes : \E k \in karma : k.source_id = l.id
        /\ pc[q] = "done" /\ IsLike(q) /\ resp[q] = HTTP_409_CONFLICT

\* C4: every ledger row has a still-existing Like with id = source_id, and
\* every Like has exactly one ledger row sourced from it.
C4_KarmaNeverOutlivesLike ==
    /\ \A k \in karma : \E l \in likes : l.id = k.source_id
    /\ \A l \in likes : Cardinality({k \in karma : k.source_id = l.id}) = 1

\* C5: a successful create-like adds exactly one ledger row: to the author
\* of the post, +5, post_like, or to the author of the comment, +1,
\* comment_like; its source_id is the id of the Like just created.
C5_Step(p) ==
    ( /\ Finishes(p) /\ IsLike(p) /\ resp'[p] = HTTP_201_CREATED )
    => \E l \in likes' \ likes :
          /\ likes' \ likes = {l}
          /\ l.user = req[p].user /\ l.post = req[p].post /\ l.comment = req[p].comment
          /\ karma \subseteq karma'
          /\ karma' \ karma =
                { IF req[p].post # NULL
                  THEN [user |-> PostRow(req[p].post).author, points |-> 5,
                        source_type |-> "post_like", source_id |-> l.id]
                  ELSE [user |-> CommentRow(req[p].comment).author, points |-> 1,
                        source_type |-> "comment_like", source_id |-> l.id] }

C5_LikeCreditsAuthor == [][\A p \in Procs : C5_Step(p)]_vars

\* A 201 on a post and a 201 on a comment, with their ledger rows
C5_Witness ==
    \E p, q \in Procs :
        /\ pc[p] = "done" /\ IsLike(p) /\ OnePost(p) /\ resp[p] = HTTP_201_CREATED
        /\ pc[q] = "done" /\ IsLike(q) /\ OneComment(q) /\ resp[q] = HTTP_201_CREATED
        /\ \E k \in karma : k.points = 5 /\ k.source_type = "post_like"
        /\ \E k \in karma : k.points = 1 /\ k.source_type = "comment_like"

\* C6: a create-like(u, target) that arrives when u's Like on the target is
\* committed and no other request is being served, and that finds the Like
\* still there, returns 409 and leaves the Like rows and the ledger rows as
\* they were.
C6_Step(p) ==
    ( /\ Finishes(p) /\ IsLike(p)
      /\ ~fresh[p] /\ overlap[p] = {}
      /\ UniqueViolation(likes, req[p].user, req[p].post, req[p].comment) )
    => /\ resp'[p] = HTTP_409_CONFLICT
       /\ likes' = likes /\ karma' = karma

C6_DuplicateLikeReturns409 == [][\A p \in Procs : C6_Step(p)]_vars

\* C7: a successful removeLike(u, target), on a target that still exists,
\* deletes u's Like on the target and the ledger row sourced from it in one
\* step; the author's summed karma drops by exactly the points of that like
\* and no other user's changes.
C7_Step(p) ==
    ( /\ Finishes(p) /\ IsUnlike(p) /\ resp'[p] = HTTP_204_NO_CONTENT
      /\ IF req[p].post # NULL THEN PostExists(req[p].post)
         ELSE CommentExists(req[p].comment) )
    => \E l \in LikeGet(req[p].user, req[p].post, req[p].comment) :
          \E k \in KarmaOfLike(karma, SourceType(req[p].post), l.id) :
             /\ likes' = likes \ {l}
             /\ karma' = karma \ {k}
             /\ k.points = IF l.post # NULL THEN 5 ELSE 1
             /\ \A u \in Users :
                   TotalKarma(karma', u) =
                      TotalKarma(karma, u) - (IF u = k.user THEN k.points ELSE 0)

C7_UnlikeRemovesPair == [][\A p \in Procs : C7_Step(p)]_vars

\* C8: removeLike(u, target) with no Like of u on the target returns 404 and
\* changes no row; a removeLike that found the Like leaves none behind, so
\* the same call issued after it is such a 404.
C8_Step(p) ==
    /\ ( /\ pc[p] = "started" /\ pc'[p] # pc[p]
         /\ LikeGet(req[p].user, req[p].post, req[p].comment) = {} )
       => /\ pc'[p] = "done" /\ resp'[p] = HTTP_404_NOT_FOUND
          /\ likes' = likes /\ karma' = karma
    /\ ( /\ Finishes(p) /\ IsUnlike(p) /\ resp'[p] = HTTP_404_NOT_FOUND )
       => /\ LikeGet(req[p].user, req[p].post, req[p].comment) = {}
          /\ likes' = likes /\ karma' = karma
    /\ ( /\ Finishes(p) /\ IsUnlike(p) /\ resp'[p] = HTTP_204_NO_CONTENT
         /\ \E l \in likes : l.id = likeId[p] )
       => {l \in likes' : l.user = req[p].user /\
              (IF req[p].post # NULL THEN l.post = req[p].post
               ELSE l.comment = req[p].comment)} = {}

C8_UnlikeAbsentIs404 == [][\A p \in Procs : C8_Step(p)]_vars

\* The same removeLike answered 204 and then 404
C8_Witness ==
    \E p, q \in Procs :
        /\ p # q /\ pc[p] = "done" /\ pc[q] = "done"
        /\ IsUnlike(p) /\ IsUnlike(q) /\ SameTarget(p, q)
        /\ resp[p] = HTTP_204_NO_CONTENT /\ resp[q] = HTTP_404_NOT_FOUND
        /\ likeSeq = 1

\* C9: a create-like that names both a post and a comment, or neither, is
\* answered 400 by the validation step and writes nothing.
C9_Step(p) ==
    ( /\ pc[p] = "idle" /\ pc'[p] # "idle" /\ req'[p].op = "like"
      /\ \/ req'[p].post # NULL /\ req'[p].comment # NULL
         \/ req'[p].post = NULL /\ req'[p].comment = NULL )
    => /\ pc'[p] = "done" /\ resp'[p] = HTTP_400_BAD_REQUEST
       /\ UNCHANGED <<db, seqs, txLike, txKarma>>

C9_InvalidTargetIs400 == [][\A p \in Procs : C9_Step(p)]_vars

\* Both rejections: an existing post and an existing comment named together,
\* and no target at all
C9_Witness ==
    \E p, q \in Procs :
        /\ pc[p] = "done" /\ IsLike(p) /\ resp[p] = HTTP_400_BAD_REQUEST
        /\ PostExists(req[p].post) /\ CommentExists(req[p].comment)
        /\ pc[q] = "done" /\ IsLike(q) /\ resp[q] = HTTP_400_BAD_REQUEST
        /\ req[q].post = NULL /\ req[q].comment = NULL

\* C10: every Like row, committed or written by an open transaction,
\* references a post and no comment, or a comment and no post.
C10_ExactlyOneTarget ==
    \A l \in likes \cup UNION {txLike[p] : p \in Procs} :
        (l.post # NULL) # (l.comment # NULL)

\* A Like on a post and a Like on a comment are in the table
C10_Witness ==
    /\ \E l \in likes : l.post # NULL /\ l.comment = NULL
    /\ \E l \in likes : l.comment # NULL /\ l.post = NULL

\* ------------------------------------------------- comment tree (SpecTree)
TreePos == DOMAIN treeInput
HasParentInList(i) ==
    \E j \in TreePos : treeInput[j].id = treeInput[i].parent_id
ParentPos(i) == CHOOSE j \in TreePos : treeInput[j].id = treeInput[i].parent_id

\* Following parent ids from i ends at a comment without parent
RECURSIVE ReachesRoot(_, _)
ReachesRoot(i, fuel) ==
    IF treeInput[i].parent_id = NULL THEN TRUE
    ELSE IF fuel = 0 \/ ~HasParentInList(i) THEN FALSE
    ELSE ReachesRoot(ParentPos(i), fuel - 1)

\* every parent is in the list and no comment is its own ancestor
WellFormedTree == \A i \in TreePos : ReachesRoot(i, Len(treeInput))

\* s lists exactly the positions of S, each once, in the order of the input
InInputOrder(s, S) ==
    /\ Len(s) = Cardinality(S)
    /\ {s[k] : k \in DOMAIN s} = S
    /\ \A k, l \in DOMAIN s : k < l => s[k] < s[l]

RootPositions == {i \in TreePos : treeInput[i].parent_id = NULL}
ChildPositions(i) ==
    {j \in TreePos : treeInput[j].parent_id = treeInput[i].id}

\* how often the object i occurs in the returned list and in the lists attached
Occurrences(i) ==
    Cardinality({k \in DOMAIN treeRoots : treeRoots[k] = i})
    + Cardinality({pk \in UNION {{<<p, k>> : k \in DOMAIN treeChildren[p]} :
                                  p \in TreePos} :
                      treeChildren[pk[1]][pk[2]] = i})

\* C11: for a list in which every parent is present and no comment is its own
\* ancestor, the call returns the comments without parent in input order,
\* attaches to every comment the comments naming it as parent in input order,
\* and every comment occurs exactly once in the forest.
C11_ForestOfWellFormedList ==
    (treeCalls >= 1 /\ WellFormedTree) =>
        /\ InInputOrder(treeRoots, RootPositions)
        /\ \A i \in TreePos : InInputOrder(treeChildren[i], ChildPositions(i))
        /\ \A i \in TreePos : Occurrences(i) = 1

\* a root with two children, the first of which has a child of its own
C11_Witness ==
    /\ treeCalls >= 1 /\ WellFormedTree /\ Len(treeInput) = MaxTreeLen
    /\ \E i \in TreePos :
          /\ i \in RootPositions
          /\ Len(treeChildren[i]) = 2
          /\ Len(treeChildren[treeChildren[i][1]]) = 1

Orphan(i) == treeInput[i].parent_id # NULL /\ ~HasParentInList(i)

\* C12: a comment whose parent id is not NULL and names no comment of the list
\* is left out: the call returns, the comment is neither in the returned list
\* nor attached to any comment, and the other comments are placed as without it.
C12_OrphanLeftOut ==
    (treeCalls >= 1 /\ \E o \in TreePos : Orphan(o)) =>
        /\ \A o \in TreePos : Orphan(o) => Occurrences(o) = 0
        /\ InInputOrder(treeRoots, RootPositions)
        /\ \A i \in TreePos : InInputOrder(treeChildren[i], ChildPositions(i))

C12_Witness ==
    /\ treeCalls >= 1
    /\ \E o, r, c \in TreePos :
          /\ Orphan(o)
          /\ treeRoots = <<r>>
          /\ treeChildren[r] = <<c>>

\* C13: a second call on the same objects, which carry the lists the first call
\* attached, returns the same forest; no child is carried over or doubled.
C13_SecondCallSameForest ==
    treeCalls = 2 =>
        /\ [roots |-> treeRoots, children |-> treeChildren] = treePrev
        /\ \A i \in TreePos : Occurrences(i) <= 1

C13_Witness ==
    /\ treeCalls = 2
    /\ \E i \in TreePos : Len(treeChildren[i]) = 2

\* ------------------------------------------------- leaderboard (SpecBoard)
Served == boardNow # 0
\* rows of the ledger not older than 24 hours at the instant of the request
Recent == {r \in ledger : boardNow - r.created_at <= WINDOW_HOURS}
RecentOf(u) == {r \in Recent : r.user = u}
Listed == {board[k].user_id : k \in DOMAIN board}

\* C14: the total of every entry is the sum of the points of that user's rows
\* created at or after now - 24 h; older rows add nothing, and a user without
\* such a row is not listed.
C14_TotalIsSumOfRecentPoints ==
    Served =>
        \A k \in DOMAIN board :
            /\ RecentOf(board[k].user_id) # {}
            /\ board[k].total_karma = SumPoints(RecentOf(board[k].user_id))

\* a listed user who also has an older row, and a user with older rows only
C14_Witness ==
    /\ Served
    /\ \E k \in DOMAIN board : \E r \in ledger \ Recent :
          /\ r.user = board[k].user_id
          /\ board[k].total_karma = POST_LIKE_POINTS
    /\ \E r \in ledger : RecentOf(r.user) = {} /\ r.user \notin Listed

AtCutoff(r) == boardNow - r.created_at = WINDOW_HOURS

\* C15 as stated: the recipient of a row created exactly 24 hours before the
\* request is on the leaderboard of that request.
C15_BoundaryRecipientListed ==
    Served => \A r \in ledger : AtCutoff(r) => r.user \in Listed

\* users other than u whose total of recent points is at least that of u
AtLeastAsHigh(u) ==
    {v \in {r.user : r \in Recent} \ {u} :
        SumPoints(RecentOf(v)) >= SumPoints(RecentOf(u))}

\* C15 amended: a row created exactly 24 hours before the request is counted in
\* its recipient's total, and the recipient is listed unless five other users
\* have totals at least as high.
C15_BoundaryCounted ==
    Served =>
        \A r \in ledger : AtCutoff(r) =>
            /\ \A k \in DOMAIN board : board[k].user_id = r.user =>
                  board[k].total_karma =
                      r.points + SumPoints(RecentOf(r.user) \ {r})
            /\ Cardinality(AtLeastAsHigh(r.user)) < LEADERBOARD_LIMIT
                  => r.user \in Listed

\* a listed user whose total is made of a row at the cutoff and a younger one
C15_Witness ==
    /\ Served
    /\ \E k \in DOMAIN board : \E r, y \in ledger :
          /\ r.user = board[k].user_id /\ y.user = r.user
          /\ AtCutoff(r) /\ y.created_at > r.created_at
          /\ board[k].total_karma = r.points + y.points

\* C16: the response has min(5, number of users with a recent row) entries,
\* totals never increase down the list, ranks are 1..k, and no user left out
\* has a higher total than a listed one.
C16_TopFive ==
    Served =>
        LET users == {r.user : r \in Recent}
            k == IF Cardinality(users) < LEADERBOARD_LIMIT
                 THEN Cardinality(users) ELSE LEADERBOARD_LIMIT
        IN  /\ Len(board) = k
            /\ \A i, j \in DOMAIN board :
                  i < j => board[i].total_karma >= board[j].total_karma
            /\ \A i \in DOMAIN board : board[i].rank = i
            /\ \A v \in users \ Listed : \A i \in DOMAIN board :
                  SumPoints(RecentOf(v)) <= board[i].total_karma

\* six users with recent rows, the one left out below the fifth entry
C16_Witness ==
    /\ Served
    /\ Cardinality({r.user : r \in Recent}) = LEADERBOARD_LIMIT + 1
    /\ Len(board) = LEADERBOARD_LIMIT
    /\ board[1].total_karma > board[LEADERBOARD_LIMIT].total_karma
    /\ \E v \in {r.user : r \in Recent} \ Listed :
          SumPoints(RecentOf(v)) < board[LEADERBOARD_LIMIT].total_karma

\* C17: ties are broken by a fixed rule: every response the view can give for
\* the same ledger at the same instant is the sequence it gave.
C17_SameSequenceEveryTime ==
    Served => \A other \in Leaderboards(ledger, boardNow) : other = board

\* ------------------------------------------------ content (SpecContent)
\* C18: every comment with a parent belongs to the post of its parent.
C18_ParentInSamePost ==
    \A c \in comments : \A q \in comments :
        q.id = c.parent => q.post = c.post

\* the comments reached from the ids S by following parent
RECURSIVE Ancestors(_)
Ancestors(S) ==
    LET T == S \cup ({c.parent : c \in {x \in comments : x.id \in S}} \ {NULL})
    IN  IF T = S THEN S ELSE Ancestors(T)

\* C19: the parent relation has no cycle: no comment is reached from its own
\* parent by following parent.
C19_ParentAcyclic ==
    \A c \in comments : c.parent # NULL => c.id \notin Ancestors({c.parent})

\* C20: a post that exists before and after a step has the same text and the
\* same author as before; a post changes by deletion only.
C20_Step ==
    \A r \in posts : \A q \in posts' : q.id = r.id => q = r

C20_PostImmutable == [][C20_Step]_vars

\* ------------------------------------------- comment tree, any list (SpecTree)
\* the comments written into the response built from the forest
Output == Flatten(treeChildren, treeRoots)
InOutput(i) == \E k \in DOMAIN Output : Output[k] = i

\* C30: for every list with distinct ids, dangling, self and cyclic parents
\* included, the call returns and the response holds exactly the comments whose
\* chain of parent ids reaches a comment without parent through comments of
\* the list, each once; no comment below a comment left out is written.
C30_OutputIsRootedPart ==
    treeCalls >= 1 =>
        /\ \A i \in TreePos : InOutput(i) <=> ReachesRoot(i, Len(treeInput))
        /\ \A k, l \in DOMAIN Output : Output[k] = Output[l] => k = l
        /\ \A i \in TreePos : ~InOutput(i) =>
              \A k \in DOMAIN treeChildren[i] : ~InOutput(treeChildren[i][k])

\* a list with a comment under a root, a comment under a missing parent with a
\* reply of its own
C30_Witness ==
    /\ treeCalls >= 1
    /\ \E r, c, o, d \in TreePos :
          /\ treeRoots = <<r>> /\ treeChildren[r] = <<c>>
          /\ Orphan(o) /\ treeChildren[o] = <<d>>
          /\ Output = <<r, c>>

\* two comments that name each other as parent, next to a root
C30_WitnessCycle ==
    /\ treeCalls >= 1
    /\ \E r, a, b \in TreePos :
          /\ a # b /\ treeChildren[a] = <<b>> /\ treeChildren[b] = <<a>>
          /\ Output = <<r>>

\* ------------------------------------------------------- likes, continued
\* the points a like of the target is worth
PointsOf(post) == IF post # NULL THEN POST_LIKE_POINTS ELSE COMMENT_LIKE_POINTS

\* the target of p's request exists
TargetThere(p) ==
    IF req[p].post # NULL THEN PostExists(req[p].post)
    ELSE CommentExists(req[p].comment)

\* C23: a create-like by the author of the target, ending while the target
\* exists and the author has no Like on it, ends with 201 and raises the
\* author's summed karma by 5 for a post and by 1 for a comment.
C23_Step(p) ==
    ( /\ Finishes(p) /\ IsLike(p)
      /\ req[p].author = req[p].user
      /\ TargetThere(p)
      /\ LikesOf(likes, req[p].user, req[p].post, req[p].comment) = {} )
    => /\ resp'[p] = HTTP_201_CREATED
       /\ TotalKarma(karma', req[p].user) =
             TotalKarma(karma, req[p].user) + PointsOf(req[p].post)
       /\ LikesOf(likes', req[p].user, req[p].post, req[p].comment) # {}

C23_SelfLikeAllowed == [][\A p \in Procs : C23_Step(p)]_vars

\* a 201 for a like of one's own post and one for a like of one's own comment
C23_Witness ==
    \E p, q \in Procs :
        /\ pc[p] = "done" /\ IsLike(p) /\ OnePost(p) /\ resp[p] = HTTP_201_CREATED
        /\ req[p].author = req[p].user
        /\ pc[q] = "done" /\ IsLike(q) /\ OneComment(q) /\ resp[q] = HTTP_201_CREATED
        /\ req[q].author = req[q].user /\ req[q].user = req[p].user
        /\ TotalKarma(karma, req[p].user) = POST_LIKE_POINTS + COMMENT_LIKE_POINTS

\* C24: a create-like ends with 409 only if a Like of the same user on the same
\* target is committed when the request is rejected.
C24_Step(p) ==
    ( /\ Finishes(p) /\ IsLike(p) /\ resp'[p] = HTTP_409_CONFLICT )
    => LikesOf(likes, req[p].user, req[p].post, req[p].comment) # {}

C24_ConflictMeansDuplicate == [][\A p \in Procs : C24_Step(p)]_vars

\* ------------------------------------------- likes without deletion (SpecLikes)
LikesOnPostsOf(u) ==
    {l \in likes : l.post # NULL /\ PostExists(l.post) /\ PostRow(l.post).author = u}
LikesOnCommentsOf(u) ==
    {l \in likes : l.comment # NULL /\ CommentExists(l.comment)
                    /\ CommentRow(l.comment).author = u}

\* C26: while no content is deleted, every user's summed karma is 5 times the
\* number of Likes on the user's posts plus the number of Likes on the user's
\* comments.
C26_KarmaMatchesLikes ==
    \A u \in Users :
        TotalKarma(karma, u) =
            5 * Cardinality(LikesOnPostsOf(u)) + Cardinality(LikesOnCommentsOf(u))

\* after a like was removed, with another like still there
C26_Witness ==
    /\ likeSeq = MaxLikeId
    /\ Cardinality(likes) = 1 /\ Cardinality(karma) = 1
    /\ \E p \in Procs : pc[p] = "done" /\ IsUnlike(p) /\ resp[p] = HTTP_204_NO_CONTENT

\* C27: frame of the like requests.  A create-like ending with 201 adds one
\* Like row and one ledger row and touches no other row; a remove-like ending
\* with 204 removes the Like of its user on its target and the ledger row
\* sourced from it and nothing else; a request ending with 400, 404 or 409
\* changes no row.
C27_Step(p) ==
    Finishes(p) =>
        /\ (req'[p].op = "like" /\ resp'[p] = HTTP_201_CREATED) =>
              /\ likes \subseteq likes' /\ Cardinality(likes' \ likes) = 1
              /\ karma \subseteq karma' /\ Cardinality(karma' \ karma) = 1
        /\ (req'[p].op = "unlike" /\ resp'[p] = HTTP_204_NO_CONTENT) =>
              \E l \in LikesOf(likes, req'[p].user, req'[p].post, req'[p].comment) :
                  /\ likes' = likes \ {l}
                  /\ \E k \in karma :
                        /\ k.source_id = l.id
                        /\ karma' = karma \ {k}
        /\ resp'[p] \in {HTTP_400_BAD_REQUEST, HTTP_404_NOT_FOUND, HTTP_409_CONFLICT} =>
              likes' = likes /\ karma' = karma

C27_LikeFrame == [][\A p \in Procs : C27_Step(p)]_vars

\* the ledger rows whose source is the Like l
SourcedFrom(rows, l) ==
    {k \in rows : k.source_id = l.id /\ k.source_type = SourceType(l.post)}

\* every Like has exactly one ledger row sourced from it, every ledger row a Like
PairsMatch ==
    /\ \A l \in likes :
          Cardinality(SourcedFrom(karma, l)) = 1
    /\ \A k \in karma :
          \E l \in likes : l.id = k.source_id /\ SourceType(l.post) = k.source_type

\* C29: under every interleaving of like and unlike requests, racing
\* remove-likes included, a step removes at most one Like and with it exactly
\* the ledger row sourced from it, no user's summed karma drops by more than
\* the points of the Like removed, and in every committed state a Like exists
\* exactly when one ledger row sourced from it exists.
C29_Step ==
    /\ Cardinality(likes \ likes') <= 1
    /\ karma \ karma' =
          UNION {SourcedFrom(karma, l) : l \in likes \ likes'}
    /\ \A u \in Users :
          TotalKarma(karma, u) - TotalKarma(karma', u)
              <= SumPoints({[points |-> PointsOf(l.post), id |-> l.id] :
                               l \in likes \ likes'})
    /\ PairsMatch'

C29_RemovedAtMostOnce == [][C29_Step]_vars

\* two remove-likes of the same user on the same target, both answered 204,
\* raced against one Like while another user's Like stays
C29_Witness ==
    /\ \A p \in Procs : pc[p] = "done" /\ IsUnlike(p) /\ resp[p] = HTTP_204_NO_CONTENT
    /\ \A p, q \in Procs : SameTarget(p, q)
    /\ Cardinality(likes) = 1 /\ PairsMatch

\* the statuses the contract lists for the request in slot p
ListedStatus(p) ==
    \/ IsLike(p) /\ resp[p] \in {HTTP_201_CREATED, HTTP_409_CONFLICT, HTTP_400_BAD_REQUEST}
    \/ IsUnlike(p) /\ resp[p] \in {HTTP_204_NO_CONTENT, HTTP_404_NOT_FOUND, HTTP_400_BAD_REQUEST}

\* C22: under fair scheduling every started create-like or remove-like request
\* is eventually answered, and the answer is 201, 409 or 400 for a create-like
\* and 204, 404 or 400 for a remove-like.
C22_EventuallyAnswered ==
    \A p \in Procs : InFlight(p) ~> (pc[p] = "done" /\ ListedStatus(p))

\* every started request is eventually answered, whatever the status
C22_Terminates ==
    \A p \in Procs : InFlight(p) ~> (pc[p] = "done")

\* the counts and flags of a page against the Like rows `rows`
PageMatches(pg, rows) ==
    /\ \A i \in DOMAIN pg.posts :
          LET e == pg.posts[i]
          IN  /\ e.like_count = Cardinality({l \in rows : l.post = e.id})
              /\ e.user_has_liked =
                    (pg.caller # NULL /\ \E l \in rows : l.user = pg.caller /\ l.post = e.id)
    /\ \A i \in DOMAIN pg.comments :
          LET e == pg.comments[i]
          IN  /\ e.like_count = Cardinality({l \in rows : l.comment = e.id})
              /\ e.user_has_liked =
                    (pg.caller # NULL /\ \E l \in rows : l.user = pg.caller /\ l.comment = e.id)

\* C25: in a post list or post detail response read after any sequence of
\* likes and unlikes, like_count of every post and comment is the number of
\* Like rows that reference it, and user_has_liked holds exactly when the
\* request carries a user who has a Like on it.
C25_CountsAndFlags == [][page' # page => PageMatches(page', likes')]_vars

\* a detail page of a post with two comments, read by a user who likes the
\* post and one of the comments
C25_Witness ==
    /\ page.view = "detail" /\ page.caller # NULL
    /\ Len(page.comments) = 2
    /\ page.posts[1].like_count = 1 /\ page.posts[1].user_has_liked
    /\ \E i \in DOMAIN page.comments :
          page.comments[i].like_count = 1 /\ page.comments[i].user_has_liked
    /\ PageMatches(page, likes)

\* since the reader noted the tables, exactly one Like was created, by the
\* noted user on the noted target, and no Like was removed
LikedSinceNoted ==
    /\ snap.taken
    /\ likeSeq = snap.likeSeq + 1
    /\ \E l \in LikesOf(likes, snap.user, snap.post, snap.comment) :
          l.id = likeSeq /\ likes = snap.likes \cup {l}

\* slot q holds the answered remove-like that took that one Like away again
RoundTripDone(q) ==
    /\ snap.taken
    /\ pc[q] = "done" /\ IsUnlike(q) /\ Noted(q)
    /\ resp[q] = HTTP_204_NO_CONTENT /\ likeId[q] = snap.likeSeq + 1
    /\ likeSeq = snap.likeSeq + 1
    /\ likes = snap.likes

\* the sums noted, with the points of the noted target added to its author
SumsCredited ==
    LET author == TargetAuthor(snap.post, snap.comment)
    IN  [u \in Users |-> snap.sums[u] + IF u = author THEN PointsOf(snap.post) ELSE 0]

C28_Step(p) ==
    /\ (Finishes(p) /\ IsUnlike(p) /\ Noted(p) /\ LikedSinceNoted) =>
          /\ resp'[p] = HTTP_204_NO_CONTENT
          /\ Pairs(likes') = Pairs(snap.likes)
          /\ Sums(karma') = snap.sums
    /\ (Finishes(p) /\ IsLike(p) /\ Noted(p) /\ \E q \in Procs \ {p} : RoundTripDone(q)) =>
          /\ resp'[p] = HTTP_201_CREATED
          /\ Pairs(likes') = Pairs(snap.likes) \cup {<<snap.user, snap.post, snap.comment>>}
          /\ Sums(karma') = SumsCredited

\* C28: from a state in which u does not like t, create-like(u, t) followed by
\* remove-like(u, t) brings the set of (user, target) pairs and every user's
\* summed karma back to what they were, and a further create-like(u, t) is
\* answered 201 and credits the author the same points again.
C28_RoundTrip == [][\A p \in Procs : C28_Step(p)]_vars

\* the round trip was made from a state with another Like and karma in it,
\* and the further create-like was answered
C28_Witness ==
    /\ snap.taken /\ snap.likes # {} /\ snap.sums[TargetAuthor(snap.post, snap.comment)] > 0
    /\ likeSeq = snap.likeSeq + 2
    /\ \E p \in Procs : /\ pc[p] = "done" /\ IsLike(p) /\ Noted(p)
                         /\ resp[p] = HTTP_201_CREATED
    /\ \E q \in Procs : /\ pc[q] = "done" /\ IsUnlike(q) /\ Noted(q)
                         /\ resp[q] = HTTP_204_NO_CONTENT /\ likeId[q] = snap.likeSeq + 1
    /\ Pairs(likes) = Pairs(snap.likes) \cup {<<snap.user, snap.post, snap.comment>>}
    /\ Sums(karma) = SumsCredited

ClientErrors == 400..499

\* the step serves a write of one of the operations ops for no user
ServesAnonymous(ops) == served'.caller = NULL /\ served'.op \in ops

\* C21: every write attempted without an authenticated identity (create or
\* remove a like, create, update or delete a post or a comment) is answered
\* with a 4xx status and leaves the store unchanged.
C21_AnonymousWritesRejected ==
    [][ServesAnonymous({"like", "unlike", "create_post", "update_post", "destroy_post",
                        "create_comment", "update_comment", "destroy_comment"})
         => (served'.status \in ClientErrors /\ db' = db /\ seqs' = seqs)]_vars

\* the same for the likes and the two creations only
C21_AnonymousLikesAndCreationsRejected ==
    [][ServesAnonymous({"like", "unlike", "create_post", "create_comment"})
         => (served'.status \in ClientErrors /\ db' = db /\ seqs' = seqs)]_vars

====
